---- MODULE Spec2Model ----
(***************************************************************************)
(* A model of the two dotenv modules of the repository:                    *)
(*   src/src/minenv/__init__.py   (parse_stream, load, get)                *)
(*   src/src/dotenv/__init__.py   (load, get)                              *)
(* Text is a sequence of one-character strings, the environment store      *)
(* (os.environ) a function from key text to value text.  A behaviour is    *)
(* one process: it starts with some environment, may run the loader as its *)
(* first call, and then calls the accessor any number of times.            *)
(***************************************************************************)
EXTENDS Integers, Sequences, FiniteSets, TLC

VARIABLES
    impl,       \* which of the two modules the process imported
    environ,    \* os.environ: [set of key texts -> value text]
    call        \* the last call: its arguments, the store before it, its outcome

vars == <<impl, environ, call>>

\* Longest source file (in lines) handed to load().
MaxLines == 2

------------------------------------------------------------------------------
\* Text primitives (Python str methods used by the code)

QUOTES == {"\"", "'"}

Whitespace == {" "}

DIGITS == <<"0", "1", "2", "3", "4", "5", "6", "7", "8", "9">>

RECURSIVE lstrip(_, _)
lstrip(s, chars) ==
    IF s # <<>> /\ Head(s) \in chars THEN lstrip(Tail(s), chars) ELSE s

RECURSIVE rstrip(_, _)
rstrip(s, chars) ==
    IF s # <<>> /\ s[Len(s)] \in chars
    THEN rstrip(SubSeq(s, 1, Len(s) - 1), chars)
    ELSE s

\* str.strip(chars): every leading and every trailing character of chars.
strip_chars(s, chars) == rstrip(lstrip(s, chars), chars)

\* str.strip(): surrounding whitespace.
strip(s) == strip_chars(s, Whitespace)

\* "=" in content
has_eq(s) == \E i \in 1..Len(s) : s[i] = "="

\* Position of the first "=" (content.partition("="), line.split("=", 1)).
first_eq(s) == CHOOSE i \in 1..Len(s) : s[i] = "=" /\ \A j \in 1..(i - 1) : s[j] # "="

before_eq(s) == SubSeq(s, 1, first_eq(s) - 1)

after_eq(s) == SubSeq(s, first_eq(s) + 1, Len(s))

------------------------------------------------------------------------------
\* The source stream: a sequence of lines; ReadFault stands for an item whose
\* read raises (an I/O or decoding error inside `for line in stream`).

ReadFault == <<"EIO">>

Pair(key, value) == [kind |-> "pair", key |-> key, value |-> value]

Skip == [kind |-> "skip"]

Raise(error) == [kind |-> "raise", error |-> error]

\* minenv: one iteration of parse_stream.  value[1] is the SECOND character
\* (Python indexes from 0) and raises IndexError on a value shorter than 2.
minenv_parse_line(line) ==
    IF line = ReadFault THEN Raise("OSError")
    ELSE LET content == strip(line) IN
         IF content = <<>> \/ content[1] = "#" \/ ~has_eq(content) THEN Skip
         ELSE LET key == strip(before_eq(content))
                  value == strip(after_eq(content))
              IN IF Len(value) < 2 THEN Raise("IndexError")
                 ELSE IF value[2] \in QUOTES /\ value[Len(value)] \in QUOTES
                      THEN Pair(key, SubSeq(value, 2, Len(value) - 1))
                      ELSE Pair(key, value)

\* dotenv: the body of the loop of load up to the override test.  Unpacking
\* line.split("=", 1) raises ValueError when the line holds no "=".
dotenv_parse_line(line) ==
    IF line = ReadFault THEN Raise("OSError")
    ELSE LET content == strip(line) IN
         IF content = <<>> \/ content[1] = "#" THEN Skip
         ELSE IF ~has_eq(content) THEN Raise("ValueError")
         ELSE LET key == strip(before_eq(content))
                  value == strip_chars(strip_chars(strip(after_eq(content)), {"\""}), {"'"})
              IN Pair(key, value)

parse_line(m, line) ==
    IF m = "minenv" THEN minenv_parse_line(line) ELSE dotenv_parse_line(line)

\* environ[key] = value
setenv(env, key, value) ==
    [k \in (DOMAIN env) \cup {key} |-> IF k = key THEN value ELSE env[k]]

\* minenv: `not override and environ.get(key)`: present with a non-empty value.
minenv_keeps(env, key, override) ==
    ~override /\ key \in DOMAIN env /\ env[key] # <<>>

\* dotenv: `key in environ and not override`.
dotenv_keeps(env, key, override) ==
    key \in DOMAIN env /\ ~override

keeps(m, env, key, override) ==
    IF m = "minenv" THEN minenv_keeps(env, key, override)
    ELSE dotenv_keeps(env, key, override)

\* The loop over the stream, from line i on: the store it leaves, the error
\* that ended it ("None" when it ran to the end) and the line it ended at.
RECURSIVE load_loop(_, _, _, _, _)
load_loop(m, lines, i, env, override) ==
    IF i > Len(lines) THEN [env |-> env, error |-> "None", at |-> 0]
    ELSE LET p == parse_line(m, lines[i]) IN
         CASE p.kind = "raise" -> [env |-> env, error |-> p.error, at |-> i]
           [] p.kind = "skip" -> load_loop(m, lines, i + 1, env, override)
           [] p.kind = "pair" ->
                IF keeps(m, env, p.key, override)
                THEN load_loop(m, lines, i + 1, env, override)
                ELSE load_loop(m, lines, i + 1, setenv(env, p.key, p.value), override)

\* open(path, encoding="UTF-8"): only ".env" exists.
open_ok(path) == path = ".env"

\* except Exception as error: raise it when verbose, else return it.
outcome_of(error, verbose) ==
    IF error # "None" /\ verbose THEN "raised" ELSE "returned"

\* dotenv: finally: if stream: stream.close()
dotenv_finally(stream_bound) == IF stream_bound THEN 1 ELSE 0

\* minenv: leaving the with block closes the stream it entered.
minenv_exit(entered) == IF entered THEN 1 ELSE 0

\* A variant of minenv.load that reads the whole stream before it writes
\* anything (list(parse_stream(inner))): an error leaves the store as it was.
minenv_load_all_or_nothing(path, has_stream, lines, override, verbose, env) ==
    IF ~has_stream /\ ~open_ok(path)
    THEN [env |-> env, error |-> "FileNotFoundError", at |-> 0,
          outcome |-> outcome_of("FileNotFoundError", verbose),
          closed |-> minenv_exit(FALSE)]
    ELSE LET r == load_loop("minenv", lines, 1, env, override) IN
         [env |-> IF r.error = "None" THEN r.env ELSE env,
          error |-> r.error, at |-> r.at,
          outcome |-> outcome_of(r.error, verbose),
          closed |-> minenv_exit(TRUE)]

\* minenv.load.  has_stream: a stream was passed; lines: what the stream (or
\* the file at path) holds.
minenv_load(path, has_stream, lines, override, verbose, env) ==
    IF ~has_stream /\ ~open_ok(path)
    THEN [env |-> env, error |-> "FileNotFoundError", at |-> 0,
          outcome |-> outcome_of("FileNotFoundError", verbose),
          closed |-> minenv_exit(FALSE)]
    ELSE LET r == load_loop("minenv", lines, 1, env, override) IN
         [env |-> r.env, error |-> r.error, at |-> r.at,
          outcome |-> outcome_of(r.error, verbose),
          closed |-> minenv_exit(TRUE)]

\* A variant of dotenv.load that closes the stream as the last statement of
\* the try block instead of in finally: an error skips the close.
dotenv_load_close_in_try(path, has_stream, lines, override, verbose, env) ==
    IF path = "" /\ ~has_stream
    THEN [env |-> env, error |-> "ValueError", at |-> 0,
          outcome |-> "raised", closed |-> 0]
    ELSE IF ~has_stream /\ ~open_ok(path)
    THEN [env |-> env, error |-> "FileNotFoundError", at |-> 0,
          outcome |-> outcome_of("FileNotFoundError", verbose),
          closed |-> 0]
    ELSE LET r == load_loop("dotenv", lines, 1, env, override) IN
         [env |-> r.env, error |-> r.error, at |-> r.at,
          outcome |-> outcome_of(r.error, verbose),
          closed |-> IF r.error = "None" THEN 1 ELSE 0]

\* dotenv.load.  The first test raises outside the try block.
dotenv_load(path, has_stream, lines, override, verbose, env) ==
    IF path = "" /\ ~has_stream
    THEN [env |-> env, error |-> "ValueError", at |-> 0,
          outcome |-> "raised", closed |-> 0]
    ELSE IF ~has_stream /\ ~open_ok(path)
    THEN [env |-> env, error |-> "FileNotFoundError", at |-> 0,
          outcome |-> outcome_of("FileNotFoundError", verbose),
          closed |-> dotenv_finally(FALSE)]
    ELSE LET r == load_loop("dotenv", lines, 1, env, override) IN
         [env |-> r.env, error |-> r.error, at |-> r.at,
          outcome |-> outcome_of(r.error, verbose),
          closed |-> dotenv_finally(TRUE)]

load(m, path, has_stream, lines, override, verbose, env) ==
    IF m = "minenv" THEN minenv_load(path, has_stream, lines, override, verbose, env)
    ELSE dotenv_load(path, has_stream, lines, override, verbose, env)

------------------------------------------------------------------------------
\* The accessor.  Python values: text, integers, None and the sentinel.

UNDEFINED == [t |-> "Ellipsis"]

None == [t |-> "None"]

StrVal(s) == [t |-> "str", s |-> s]

IntVal(n) == [t |-> "int", n |-> n]

RECURSIVE decimal(_)
decimal(n) ==
    IF n < 10 THEN <<DIGITS[n + 1]>>
    ELSE decimal(n \div 10) \o <<DIGITS[(n % 10) + 1]>>

is_digit(c) == \E d \in 1..10 : DIGITS[d] = c

digit_value(c) == (CHOOSE d \in 1..10 : DIGITS[d] = c) - 1

RECURSIVE int_of_digits(_)
int_of_digits(s) ==
    IF s = <<>> THEN 0
    ELSE 10 * int_of_digits(SubSeq(s, 1, Len(s) - 1)) + digit_value(s[Len(s)])

Returned(v) == [outcome |-> "returned", value |-> v]

Raised(error) == [outcome |-> "raised", error |-> error]

\* str(value)
into_str(v) ==
    IF v.t = "int" THEN Returned(StrVal(decimal(v.n))) ELSE Returned(v)

\* int(value): text must be digits (surrounding whitespace allowed)
into_int(v) ==
    IF v.t = "int" THEN Returned(v)
    ELSE LET s == strip(v.s) IN
         IF s # <<>> /\ \A i \in 1..Len(s) : is_digit(s[i])
         THEN Returned(IntVal(int_of_digits(s)))
         ELSE Raised("ValueError")

into_apply(into, v) == IF into = "int" THEN into_int(v) ELSE into_str(v)

\* A variant of the lookup that tests the value's truth (environ.get(key) or
\* default): a key set to the empty text counts as missing.
environ_get_truthy(env, key, default) ==
    IF key \in DOMAIN env /\ env[key] # <<>> THEN StrVal(env[key]) ELSE default

\* environ.get(key, default=default)
environ_get(env, key, default) ==
    IF key \in DOMAIN env THEN StrVal(env[key]) ELSE default

\* get(key, default=default, into=into); the same code in both modules.
get(env, key, default, into) ==
    LET value == environ_get(env, key, default) IN
    IF value = UNDEFINED THEN Raised("KeyError")
    ELSE IF value = None THEN Returned(None)
    ELSE into_apply(into, value)

------------------------------------------------------------------------------
\* Inputs

KeyA == <<"A">>

KeyB == <<"B">>

Lines == {
    <<" ">>,                                    \* blank
    <<"#", "A", "=", "7">>,                     \* full-line comment
    <<"A", "1">>,                               \* no "="
    <<"A", "=", "1">>,                          \* A=1
    <<"A", "=">>,                               \* A=
    <<" ", "A", " ", "=", " ", "1", "2", " ">>, \* padded A = 12
    <<"A", "=", "\"", "1", "\"">>,              \* A="1"
    <<"A", "=", "\"", "1">>,                    \* A="1
    <<"A", "=", "\"", "1", "'">>,               \* A="1'
    <<"A", "=", "\"", "'", "1", "'", "\"">>,    \* A="'1'"
    <<"B", "=", "2", "1">>,                     \* B=21
    <<"B", "=", "\"", "\"">>,                   \* B=""
    <<"B", "=", "1", "=", "2">>,                \* B=1=2
    ReadFault }

\* The lines a load can stop at, and two lines both modules load alike.
CoreLines == {
    <<"A", "=", "1", "2">>,                     \* A=12
    <<"B", "=", "2", "1">>,                     \* B=21
    <<"A", "=", "1">>,                          \* A=1
    <<"A", "1">>,                               \* no "="
    ReadFault }

\* Every file of up to MaxLines lines, and the files of one more line made of
\* CoreLines (a line before the failing one and a line after it).
Files ==
    UNION {[1..n -> Lines] : n \in 0..MaxLines} \cup [1..(MaxLines + 1) -> CoreLines]

InitEnvs == {
    [k \in {} |-> <<>>],
    [k \in {KeyA} |-> <<>>],
    [k \in {KeyA} |-> <<"9">>] }

Paths == {"", ".env", "missing"}

Defaults == {UNDEFINED, None, IntVal(100), StrVal(<<"x">>)}

Intos == {"str", "int"}

------------------------------------------------------------------------------
\* The process

Init ==
    /\ impl \in {"minenv", "dotenv"}
    /\ environ \in InitEnvs
    /\ call = [op |-> "none"]

DoLoad(path, has_stream, lines, override, verbose) ==
    LET r == load(impl, path, has_stream, lines, override, verbose, environ) IN
    /\ environ' = r.env
    /\ call' = [op |-> "load", path |-> path, has_stream |-> has_stream,
                lines |-> lines, override |-> override, verbose |-> verbose,
                before |-> environ, error |-> r.error, at |-> r.at,
                outcome |-> r.outcome, closed |-> r.closed]
    /\ UNCHANGED impl

\* load(stream=...) with the default path
LoadStream ==
    /\ call.op = "none"
    /\ \E lines \in Files, override \in BOOLEAN, verbose \in BOOLEAN :
        DoLoad(".env", TRUE, lines, override, verbose)

\* load(path) where the file exists and holds lines
LoadPath ==
    /\ call.op = "none"
    /\ \E lines \in Files, override \in BOOLEAN, verbose \in BOOLEAN :
        DoLoad(".env", FALSE, lines, override, verbose)

\* load(path) where the path is empty or names no file
LoadNoSource ==
    /\ call.op = "none"
    /\ \E path \in Paths \ {".env"}, override \in BOOLEAN, verbose \in BOOLEAN :
        DoLoad(path, FALSE, <<>>, override, verbose)

Get ==
    \E key \in {KeyA, KeyB}, default \in Defaults, into \in Intos :
        LET r == get(environ, key, default, into) IN
        /\ call' = [op |-> "get", key |-> key, default |-> default, into |-> into,
                    before |-> environ, result |-> r]
        /\ UNCHANGED <<impl, environ>>

Next == LoadStream \/ LoadPath \/ LoadNoSource \/ Get

Spec == Init /\ [][Next]_vars

------------------------------------------------------------------------------
\* What a source line says, read as the format describes it

IsPairLine(line) ==
    /\ line # ReadFault
    /\ LET c == strip(line) IN c # <<>> /\ c[1] # "#" /\ has_eq(c)

IsNoEqLine(line) ==
    /\ line # ReadFault
    /\ LET c == strip(line) IN c # <<>> /\ c[1] # "#" /\ ~has_eq(c)

SrcKey(line) == strip(before_eq(strip(line)))

SrcValue(line) == strip(after_eq(strip(line)))

\* No quote character at either end.
Plain(v) == v = <<>> \/ (v[1] \notin QUOTES /\ v[Len(v)] \notin QUOTES)

\* One layer of a matching outer pair removed, anything else kept.
OneLayerUnquoted(v) ==
    IF Len(v) >= 2 /\ v[1] \in QUOTES /\ v[Len(v)] = v[1]
    THEN SubSeq(v, 2, Len(v) - 1)
    ELSE v

IsLoad == call.op = "load"

IsGet == call.op = "get"

\* The load had a stream: passed by the caller or opened from the path.
GotStream == IsLoad /\ (call.has_stream \/ open_ok(call.path))

LineIdx == 1..Len(call.lines)

\* Line i is the last line of the source naming its key.
LastOfKey(i) ==
    \A j \in (i + 1)..Len(call.lines) :
        ~(IsPairLine(call.lines[j]) /\ SrcKey(call.lines[j]) = SrcKey(call.lines[i]))

Holds(k, v) == k \in DOMAIN environ /\ environ[k] = v

\* The store holds for k what it held before the call.
Untouched(k) ==
    /\ (k \in DOMAIN environ) = (k \in DOMAIN call.before)
    /\ k \in DOMAIN call.before => environ[k] = call.before[k]

\* What the imported module makes of line i.
Parsed(i) == parse_line(impl, call.lines[i])

SetMax(S) == CHOOSE x \in S : \A y \in S : y <= x

SetMin(S) == CHOOSE x \in S : \A y \in S : x <= y

------------------------------------------------------------------------------
\* C1: get of a key absent from the store with a supplied default returns the
\* default itself, whatever `into` is: `into` is not applied to it.
C1_DefaultReturnedUnconverted ==
    (IsGet /\ call.key \notin DOMAIN call.before /\ call.default # UNDEFINED)
        => call.result = Returned(call.default)

\* C2: a load with override=true of KEY=VALUE lines whose trimmed values carry
\* no quotes (values of length 0 and 1 included) succeeds and leaves each KEY
\* mapped to its trimmed VALUE, which get(KEY) then returns as text.
C2_PlainValueLoaded ==
    (/\ GotStream
     /\ call.override
     /\ call.lines # <<>>
     /\ \A i \in LineIdx : IsPairLine(call.lines[i]) /\ Plain(SrcValue(call.lines[i])))
        => /\ call.error = "None"
           /\ call.outcome = "returned"
           /\ \A i \in LineIdx : LastOfKey(i) =>
                /\ Holds(SrcKey(call.lines[i]), SrcValue(call.lines[i]))
                /\ get(environ, SrcKey(call.lines[i]), UNDEFINED, "str")
                     = Returned(StrVal(SrcValue(call.lines[i])))

\* C3: load strips exactly one layer of quotes, and only when the trimmed value
\* starts and ends with the same quote character; any other quote is kept.
C3_SymmetricQuoteStripping ==
    (/\ GotStream
     /\ call.override
     /\ call.error = "None"
     /\ \A i \in LineIdx : IsPairLine(call.lines[i]))
        => \A i \in LineIdx : LastOfKey(i) =>
               Holds(SrcKey(call.lines[i]), OneLayerUnquoted(SrcValue(call.lines[i])))

\* C4: with override=false a key of the source that the store already holds
\* (with any value, the empty text included) keeps its value.
C4_OverrideOffKeepsExisting ==
    (IsLoad /\ ~call.override)
        => \A k \in DOMAIN call.before :
               (\E i \in LineIdx : IsPairLine(call.lines[i]) /\ SrcKey(call.lines[i]) = k)
                   => Holds(k, call.before[k])

\* C5: after a successful load, a key that was absent before it and that
\* several valid lines name holds the value of the last of them, with
\* override=true and with override=false.
C5_LastDuplicateWins ==
    (GotStream /\ call.error = "None")
        => \A i \in LineIdx, j \in LineIdx :
               (/\ i < j
                /\ Parsed(i).kind = "pair" /\ Parsed(j).kind = "pair"
                /\ Parsed(i).key = Parsed(j).key
                /\ Parsed(j).key \notin DOMAIN call.before
                /\ \A l \in (j + 1)..Len(call.lines) :
                       ~(Parsed(l).kind = "pair" /\ Parsed(l).key = Parsed(j).key))
                   => Holds(Parsed(j).key, Parsed(j).value)

\* C6: a load that fails returns its error when verbose=false (it never
\* raises) and raises it when verbose=true; a load that does not fail returns
\* None in both modes.
C6_DualModeErrors ==
    IsLoad => call.outcome =
                  (IF call.error # "None" /\ call.verbose THEN "raised" ELSE "returned")

\* C7: a load that got a stream (passed in, or opened from the path) closes it
\* exactly once on every exit; a load whose open failed closes nothing.
C7_StreamClosedOnce ==
    IsLoad => call.closed = (IF GotStream THEN 1 ELSE 0)

\* C7 witness: a passed stream, an error while processing a line, raised.
C7_Witness ==
    /\ GotStream /\ call.has_stream /\ call.at > 0
    /\ call.outcome = "raised" /\ call.closed = 1

\* C8: a non-blank, non-comment line without "=" is skipped: the load does
\* not fail, the line changes nothing, and the valid lines after it are
\* applied.
C8_NoEqLineSkipped ==
    (/\ GotStream
     /\ call.override
     /\ \E i \in LineIdx : IsNoEqLine(call.lines[i])
     /\ \A i \in LineIdx :
            \/ IsNoEqLine(call.lines[i])
            \/ /\ IsPairLine(call.lines[i])
               /\ Plain(SrcValue(call.lines[i]))
               /\ Len(SrcValue(call.lines[i])) >= 2)
        => /\ call.error = "None"
           /\ \A i \in LineIdx : (IsPairLine(call.lines[i]) /\ LastOfKey(i))
                  => Holds(SrcKey(call.lines[i]), SrcValue(call.lines[i]))
           /\ \A k \in {KeyA, KeyB} :
                  (\A i \in LineIdx : IsPairLine(call.lines[i]) => SrcKey(call.lines[i]) # k)
                      => Untouched(k)

\* C9: get without a default raises KeyError exactly when the key is absent;
\* for a present key it returns into(stored text), or raises what `into`
\* raised; it never changes the store.
C9_GetWithoutDefault ==
    (IsGet /\ call.default = UNDEFINED)
        => /\ environ = call.before
           /\ (call.result = Raised("KeyError")) = (call.key \notin DOMAIN call.before)
           /\ call.key \in DOMAIN call.before
                  => call.result = into_apply(call.into, StrVal(call.before[call.key]))

\* C9 witness: a present key whose text `int` rejects; the failure is raised.
C9_Witness ==
    /\ IsGet /\ call.default = UNDEFINED /\ call.into = "int"
    /\ call.key \in DOMAIN call.before
    /\ call.result = Raised("ValueError")

\* C10 as stated: a load that fails at line n has written every pair of the
\* valid lines before n (for a key named several times, its last pair), and
\* has touched no key that no valid line before n names.
C10_EveryPriorPairWritten ==
    (IsLoad /\ call.at > 0)
        => /\ \A i \in 1..(call.at - 1) :
                  (/\ Parsed(i).kind = "pair"
                   /\ \A j \in (i + 1)..(call.at - 1) :
                          ~(Parsed(j).kind = "pair" /\ Parsed(j).key = Parsed(i).key))
                      => Holds(Parsed(i).key, Parsed(i).value)
           /\ \A k \in (DOMAIN environ) \cup (DOMAIN call.before) \cup {KeyA, KeyB} :
                  (\A i \in 1..(call.at - 1) :
                       ~(Parsed(i).kind = "pair" /\ Parsed(i).key = k))
                      => Untouched(k)

\* C10 amended: a load that fails at line n leaves the store as the lines
\* before n made it under the override policy (nothing is rolled back, no
\* later line is applied, other keys are untouched).  Per key: with no valid
\* line before n naming it, its old state; with override=true, the value of
\* the last such line; with override=false, its old value when the module
\* counts it as set (dotenv: present; minenv: present and not empty), else
\* the value of the first such line that sets it (minenv: the first with a
\* non-empty value, or the last when all are empty).
C10_PrefixApplied ==
    (IsLoad /\ call.at > 0)
        => \A k \in (DOMAIN environ) \cup (DOMAIN call.before) \cup {KeyA, KeyB} :
               LET occ == {i \in 1..(call.at - 1) : Parsed(i).kind = "pair" /\ Parsed(i).key = k}
                   wasSet == /\ k \in DOMAIN call.before
                             /\ (impl = "dotenv" \/ call.before[k] # <<>>)
                   sticky == {i \in occ : impl = "dotenv" \/ Parsed(i).value # <<>>}
               IN IF occ = {} THEN Untouched(k)
                  ELSE IF call.override THEN Holds(k, Parsed(SetMax(occ)).value)
                  ELSE IF wasSet THEN Holds(k, call.before[k])
                  ELSE IF sticky # {} THEN Holds(k, Parsed(SetMin(sticky)).value)
                  ELSE Holds(k, Parsed(SetMax(occ)).value)

\* C10 witness: the load failed at line 2 of 3; line 1 changed the store and
\* stays; line 3 is a valid line for a key the store does not hold.
C10_Witness ==
    /\ IsLoad /\ call.at = 2 /\ Len(call.lines) = 3
    /\ environ # call.before
    /\ Parsed(1).kind = "pair" /\ Holds(Parsed(1).key, Parsed(1).value)
    /\ Parsed(3).kind = "pair" /\ Parsed(3).key \notin DOMAIN environ

====
